---- MODULE Spec2Model ----
(***************************************************************************)
(* A model of kv-api-rs: the entry codec (src/kv/entry.rs), the store      *)
(* (src/kv/store.rs), the two backing streams (tokio::fs::File and         *)
(* MemoryNoOpRWS, src/kv/memory_noop.rs) and the HTTP handlers that call   *)
(* the store under one Mutex (src/main.rs).                                *)
(*                                                                         *)
(* Bytes are the integers 0..255.  A byte string (a Vec<u8>, a String, the  *)
(* contents of a file) is kept run-length encoded, as the sequence of its  *)
(* maximal runs [b: byte, n: length], so that values of 1024 and 1025      *)
(* bytes stay small; a run with b < 0 stands for n consecutive bytes of    *)
(* one fixed sequence of random bytes, from its (-b)-th byte on.  Bytes,   *)
(* BLen, BAt, BSub and BCat are the constructor, length, index, slice and  *)
(* concatenation.  A stream is a record [kind, data, pos, werr]: the bytes *)
(* of the file (or of the in-memory buffer), the cursor, an offset counted *)
(* from 0, and whether a write the file accepted has failed without the    *)
(* error being reported yet.                                               *)
(*                                                                         *)
(* Specifications: Spec, one caller of the store step by step, with write  *)
(* errors and restarts; SpecHttp, two handlers under the Mutex; SpecCodec, *)
(* one record written to a buffer and read back; SpecPair, the same calls  *)
(* on a file store and on a memory store; SpecOpen and SpecOpenLive,       *)
(* KVStore::new on a log given in advance.                                 *)
(***************************************************************************)
EXTENDS Integers, Sequences, FiniteSets, TLC

\* ------------------------------------------------------------------ bounds

\* How many set requests the HTTP layer accepts in one behaviour.
MaxSets == 2
\* How many set calls may end without returning Ok: by an io::Error of the
\* stream, or cut off by the end of the process.
MaxFailures == 1
\* The number of records of a log given to KVStore::new.
MaxRecs == 2
\* A write that fails has written some of its buffer first.  How far from
\* the start or from the end of the buffer the fault may fall.
MaxCut == 2

\* ------------------------------------------------------- program constants

\* store.rs:108, `value.value.len() > 1024`.
CompressThreshold == 1024
\* entry.rs:19, Flags::None.
FlagsNone == 0
\* entry.rs:20, Flags::ZstdCompressed = 0b10000000.
FlagsZstdCompressed == 128

\* --------------------------------------------------------- bytes, integers

Min(a, b) == IF a < b THEN a ELSE b
Max(a, b) == IF a < b THEN b ELSE a

\* n bytes, all equal to b (vec![b; n]).
Fill(n, b) == IF n <= 0 THEN << >> ELSE << [b |-> b, n |-> n] >>

\* The i-th byte, counted from 1, of a fixed sequence of bytes drawn at
\* random, as the value of the repository's compressed test is
\* ((0..4096).map(|_| rng.gen()), entry.rs:184): bytes without a pattern.
\* No two neighbours among its first 1026 bytes are equal.
NoiseByte(i) == ((i * i * 1049 + i * 7919) % 46337) % 256

\* n bytes of that sequence from the o-th on, kept as one run; a single
\* byte is kept as an ordinary run.
NoiseRun(o, n) ==
    IF n <= 0 THEN << >>
    ELSE IF n = 1 THEN Fill(1, NoiseByte(o))
    ELSE << [b |-> -o, n |-> n] >>

\* The first n bytes of that sequence.
Noise(n) == NoiseRun(1, n)

\* x followed by y (extend_from_slice): the runs that meet are merged, two
\* runs of one byte into one, two runs of random bytes when the second goes
\* on where the first ends.
BCat(x, y) ==
    IF x = << >> THEN y
    ELSE IF y = << >> THEN x
    ELSE IF x[Len(x)].b = y[1].b /\ y[1].b >= 0
    THEN SubSeq(x, 1, Len(x) - 1)
           \o << [b |-> y[1].b, n |-> x[Len(x)].n + y[1].n] >> \o Tail(y)
    ELSE IF x[Len(x)].b < 0 /\ y[1].b = x[Len(x)].b - x[Len(x)].n
    THEN SubSeq(x, 1, Len(x) - 1)
           \o << [b |-> x[Len(x)].b, n |-> x[Len(x)].n + y[1].n] >> \o Tail(y)
    ELSE x \o y

\* The byte string of a sequence of bytes.
RECURSIVE Bytes(_)
Bytes(s) == IF s = << >> THEN << >> ELSE BCat(Fill(1, Head(s)), Bytes(Tail(s)))

\* x.len().
RECURSIVE BLen(_)
BLen(x) == IF x = << >> THEN 0 ELSE Head(x).n + BLen(Tail(x))

\* x[i - 1], the i-th byte, counted from 1.
RECURSIVE BAt(_, _)
BAt(x, i) ==
    IF i <= Head(x).n
    THEN (IF Head(x).b < 0 THEN NoiseByte(i - 1 - Head(x).b) ELSE Head(x).b)
    ELSE BAt(Tail(x), i - Head(x).n)

\* The first k bytes of x, and x without them.
RECURSIVE BTake(_, _)
BTake(x, k) ==
    IF k <= 0 \/ x = << >> THEN << >>
    ELSE IF Head(x).n <= k THEN << Head(x) >> \o BTake(Tail(x), k - Head(x).n)
    ELSE IF Head(x).b < 0 THEN NoiseRun(-Head(x).b, k)
    ELSE << [b |-> Head(x).b, n |-> k] >>
RECURSIVE BDrop(_, _)
BDrop(x, k) ==
    IF k <= 0 \/ x = << >> THEN x
    ELSE IF Head(x).n <= k THEN BDrop(Tail(x), k - Head(x).n)
    ELSE IF Head(x).b < 0
    THEN BCat(NoiseRun(k - Head(x).b, Head(x).n - k), Tail(x))
    ELSE << [b |-> Head(x).b, n |-> Head(x).n - k] >> \o Tail(x)

\* x[i - 1 .. j], the bytes from the i-th to the j-th.
BSub(x, i, j) == BTake(BDrop(x, i - 1), j - i + 1)

\* (n as u16).to_le_bytes(): the cast keeps the low 16 bits.
U16LE(n) == Bytes(<< (n % 65536) % 256, (n % 65536) \div 256 >>)

\* (n as u32).to_le_bytes(): the cast keeps the low 32 bits, which for a
\* natural number are the four lowest base-256 digits.
U32LE(n) == Bytes(<< n % 256, (n \div 256) % 256, (n \div 65536) % 256,
                     (n \div 16777216) % 256 >>)

\* u16::from_le_bytes.
U16FromLE(b) == BAt(b, 1) + 256 * BAt(b, 2)

\* u32::from_le_bytes.  A u32 can be larger than TLC's integers,
\* which are 32-bit signed, so it is kept in two parts, its highest byte hi
\* and its low 24 bits lo: the number is hi * 2^24 + lo.
U32FromLE(b) ==
    [hi |-> BAt(b, 4),
     lo |-> BAt(b, 1) + 256 * BAt(b, 2) + 65536 * BAt(b, 3)]

\* Whether the u32 is below 2^31, and then the integer it is.
U32Small(u) == u.hi < 128
U32Int(u) == u.hi * 16777216 + u.lo

\* flags.bitand(Flags::ZstdCompressed as u8) != 0 on a u8: bit 7 is set.
BitAnd128(flags) == IF flags >= FlagsZstdCompressed THEN FlagsZstdCompressed ELSE 0

\* String::from_utf8: the bytes are well-formed UTF-8 (RFC 3629).  Stated
\* without recursion: every lead byte is a legal one and is followed by the
\* continuation bytes it announces, and every continuation byte belongs to
\* the lead byte at most three places before it.
IsCont(x) == x >= 128 /\ x <= 191
Utf8Need(x) ==
    IF x <= 127 THEN 0
    ELSE IF x >= 194 /\ x <= 223 THEN 1
    ELSE IF x >= 224 /\ x <= 239 THEN 2
    ELSE IF x >= 240 /\ x <= 244 THEN 3
    ELSE -1
Utf8SecondOk(lead, x) ==
    IF lead = 224 THEN x >= 160 /\ x <= 191
    ELSE IF lead = 237 THEN x >= 128 /\ x <= 159
    ELSE IF lead = 240 THEN x >= 144 /\ x <= 191
    ELSE IF lead = 244 THEN x >= 128 /\ x <= 143
    ELSE IsCont(x)
Utf8Valid(x) ==
    LET n == BLen(x)
        b[i \in 1..n] == BAt(x, i)
    IN  /\ \A i \in 1..n :
              ~IsCont(b[i]) =>
                 /\ Utf8Need(b[i]) >= 0
                 /\ i + Utf8Need(b[i]) <= n
                 /\ \A k \in 1..Utf8Need(b[i]) : IsCont(b[i + k])
                 /\ Utf8Need(b[i]) >= 1 => Utf8SecondOk(b[i], b[i + 1])
        /\ \A j \in 1..n :
              IsCont(b[j]) =>
                 \E k \in 1..3 :
                    /\ j - k >= 1
                    /\ ~IsCont(b[j - k])
                    /\ Utf8Need(b[j - k]) >= k
                    /\ \A m \in 1..(k - 1) : IsCont(b[j - m])

\* ----------------------------------------------------------------- streams

\* A tokio::fs::File (or a Cursor over a Vec<u8>): "file".  MemoryNoOpRWS:
\* "memory", which holds no bytes at all.
NewStream(kind) == [kind |-> kind, data |-> << >>, pos |-> 0, werr |-> FALSE]

\* write_all(buf) at the cursor: bytes under the cursor are overwritten, the
\* file grows as needed (a gap left by a seek past the end reads as zeros).
\* write_all of an empty buffer makes no call on the stream at all.
\* MemoryNoOpRWS::poll_write reports buf.len() written and keeps nothing.
WriteAll(s, buf) ==
    IF s.kind = "memory" \/ buf = << >> THEN s
    ELSE LET n    == BLen(s.data)
             head == IF s.pos = n THEN s.data
                     ELSE IF s.pos < n THEN BSub(s.data, 1, s.pos)
                     ELSE BCat(s.data, Fill(s.pos - n, 0))
             tail == IF s.pos + BLen(buf) >= n THEN << >>
                     ELSE BSub(s.data, s.pos + BLen(buf) + 1, n)
         IN  [s EXCEPT !.data = BCat(BCat(head, buf), tail),
                       !.pos = s.pos + BLen(buf)]

\* stream_position(): seek(SeekFrom::Current(0)).  MemoryNoOpRWS answers
\* every seek with Ok(1).
StreamPosition(s) == IF s.kind = "memory" THEN 1 ELSE s.pos

\* SeekStart with a seek that leaves the cursor where it is.
SeekStartMut(s, p) == s

\* seek(SeekFrom::Start(p)); a no-op on MemoryNoOpRWS.
SeekStart(s, p) == IF s.kind = "memory" THEN s ELSE [s EXCEPT !.pos = p]

\* ReadExact with a MemoryNoOpRWS whose reads never report the end of the
\* stream: the buffer comes back as it was passed, zeroed.
ReadExactMut(s, n) ==
    IF s.kind = "memory"
    THEN [ok |-> TRUE, bytes |-> Fill(n, 0), s |-> s]
    ELSE IF n = 0 \/ n <= BLen(s.data) - s.pos
    THEN [ok |-> TRUE, bytes |-> BSub(s.data, s.pos + 1, s.pos + n),
          s |-> [s EXCEPT !.pos = s.pos + n]]
    ELSE [ok |-> FALSE, bytes |-> << >>,
          s |-> [s EXCEPT !.pos = Max(s.pos, BLen(s.data))]]

\* read_exact of n bytes: the bytes and the stream after them, or
\* UnexpectedEof with whatever was left consumed.  MemoryNoOpRWS::poll_read
\* fills nothing, which read_exact takes for the end of the stream.
ReadExact(s, n) ==
    IF n = 0 \/ n <= BLen(s.data) - s.pos
    THEN [ok |-> TRUE, bytes |-> BSub(s.data, s.pos + 1, s.pos + n),
          s |-> [s EXCEPT !.pos = s.pos + n]]
    ELSE [ok |-> FALSE, bytes |-> << >>,
          s |-> [s EXCEPT !.pos = Max(s.pos, BLen(s.data))]]

\* read_exact into vec![0; len as usize] for a u32 len.  A len of 2^31 or
\* more is longer than what is left of any stream here, as a read of one
\* byte more than the stream holds is.
ReadExactU32(s, len) ==
    IF U32Small(len) THEN ReadExact(s, U32Int(len))
    ELSE ReadExact(s, BLen(s.data) + 1)

\* ------------------------------------------------------------- entry codec

\* KVEntry::new (entry.rs:25) and Entry::new (entry.rs:220).
KVEntry(key, value, mime) == [key |-> key, value |-> value, mime |-> mime]
Entry(value, mime) == [value |-> value, mime |-> mime]
\* impl From<KVEntry> for Entry.
EntryFrom(kv) == Entry(kv.value, kv.mime)
NoEntry == KVEntry(<< >>, << >>, << >>)

\* BodyWrite with value_len cast to u16 instead of u32.
BodyWriteMut(j, kv) ==
    CASE j = 1 -> U16LE(BLen(kv.key))
      [] j = 2 -> kv.key
      [] j = 3 -> U16LE(BLen(kv.value))
      [] j = 4 -> kv.value
      [] j = 5 -> U16LE(BLen(kv.mime))
      [] j = 6 -> kv.mime

\* The j-th of the six buffers both encoders pass to write_all after the
\* flags byte: key_len, key, value_len, value, mime_len, mime.
BodyWrite(j, kv) ==
    CASE j = 1 -> U16LE(BLen(kv.key))
      [] j = 2 -> kv.key
      [] j = 3 -> U32LE(BLen(kv.value))
      [] j = 4 -> kv.value
      [] j = 5 -> U16LE(BLen(kv.mime))
      [] j = 6 -> kv.mime
NumBodyWrites == 6
BodyWrites(kv) == [j \in 1..NumBodyWrites |-> BodyWrite(j, kv)]

\* The buffer of the i-th of the seven write_all calls of write_to_stream.
RawWrite(i, kv) ==
    IF i = 1 THEN Bytes(<< FlagsNone >>) ELSE BodyWrite(i - 1, kv)
NumRawSteps == 7

\* Step i of write_to_stream.
RawStep(i, s, kv) == WriteAll(s, RawWrite(i, kv))

RECURSIVE RawStepsFrom(_, _, _)
RawStepsFrom(i, s, kv) ==
    IF i > NumRawSteps THEN s ELSE RawStepsFrom(i + 1, RawStep(i, s, kv), kv)

\* write_to_stream, start to Ok(()).
WriteToStream(s, kv) == RawStepsFrom(1, s, kv)

\* Bodies libzstd (level 3, the encoder's default) does not make shorter and
\* therefore stores as they are: a body of at most 10 bytes; a body of fewer
\* than 64 bytes in which no four bytes in a row occur twice (no match to
\* find, too few literals to code); and a body that is random bytes but for
\* at most 18 of its bytes (the three length fields and a short key and MIME
\* string around a random value).  The library stores other bodies too.
ZstdStoresRaw(body) ==
    \/ BLen(body) <= 10
    \/ /\ BLen(body) < 64
       /\ Cardinality({ << BAt(body, i), BAt(body, i + 1), BAt(body, i + 2),
                           BAt(body, i + 3) >> : i \in 1..(BLen(body) - 3) })
             = BLen(body) - 3
    \/ \E i \in 1..Len(body) :
          /\ body[i].b = -1
          /\ body[i].n >= 1024
          /\ body[i].n <= 1026
          /\ BLen(body) - body[i].n <= 18

\* What ZstdEncoder has handed to the stream once flush() returns, for the
\* bytes `body` written into it: nothing when nothing was written; else the
\* start of a Zstandard frame (RFC 8878), that is the magic number
\* 0xFD2FB528 little-endian, a frame header (no checksum, no dictionary, no
\* content size; a window descriptor), and one block.  The encoder is never
\* shut down (entry.rs:81-82 flush and into_inner), so the block does not
\* carry the last-block bit.  A body the compressor stores goes into a
\* Raw_Block: a 3-byte header (size * 8, type 0, last 0) and the bytes.  The
\* frame of a body not known to be stored is the work of the library's match
\* finder and entropy coder, which are outside the repository: it is left
\* undefined, and no such body is compressed here.
ZstdMagic == Bytes(<< 40, 181, 47, 253 >>)
ZstdFlushed(body) ==
    IF body = << >> THEN << >>
    ELSE IF ZstdStoresRaw(body)
    THEN LET h == 8 * BLen(body)
         IN  BCat(BCat(ZstdMagic,
                       Bytes(<< 0, 88, h % 256, (h \div 256) % 256,
                                (h \div 65536) % 256 >>)),
                  body)
    ELSE CHOOSE f \in {} : TRUE

\* The locals of write_to_stream_compressed: pos, start, end, and the bytes
\* written into the encoder so far.
NoLocals == [pos |-> 0, start |-> 0, end |-> 0, enc |-> << >>]
NumCompressedSteps == 10

RECURSIVE Concat(_)
Concat(bufs) ==
    IF bufs = << >> THEN << >> ELSE BCat(Head(bufs), Concat(Tail(bufs)))

\* The buffer write_to_stream_compressed passes to the stream at step i (the
\* empty buffer at the steps that write nothing).
CompressedBuffer(i, l) ==
    CASE i = 1 -> Bytes(<< FlagsZstdCompressed >>)
      [] i = 3 -> U32LE(0)
      [] i = 6 -> ZstdFlushed(l.enc)
      [] i = 9 -> U32LE(l.end - l.start)
      [] OTHER -> << >>

\* Step i of write_to_stream_compressed on c = [s: stream, l: locals]:
\* 1 the flags byte, 2 pos, 3 the placeholder, 4 start, 5 the six write_all
\* calls into the encoder (they stay in the encoder), 6 encoder.flush(),
\* 7 end, 8 the seek back to pos, 9 the frame length, 10 the seek to end.
CompressedStep(i, c, kv) ==
    CASE i \in {1, 3, 6, 9} ->
              [c EXCEPT !.s = WriteAll(c.s, CompressedBuffer(i, c.l))]
      [] i = 2 -> [c EXCEPT !.l.pos = StreamPosition(c.s)]
      [] i = 4 -> [c EXCEPT !.l.start = StreamPosition(c.s)]
      [] i = 5 -> [c EXCEPT !.l.enc = Concat(BodyWrites(kv))]
      [] i = 7 -> [c EXCEPT !.l.end = StreamPosition(c.s)]
      [] i = 8 -> [c EXCEPT !.s = SeekStart(c.s, c.l.pos)]
      [] i = 10 -> [c EXCEPT !.s = SeekStart(c.s, c.l.end)]

RECURSIVE CompressedStepsFrom(_, _, _)
CompressedStepsFrom(i, c, kv) ==
    IF i > NumCompressedSteps THEN c
    ELSE CompressedStepsFrom(i + 1, CompressedStep(i, c, kv), kv)

\* write_to_stream_compressed, start to Ok(()).
WriteToStreamCompressed(s, kv) ==
    CompressedStepsFrom(1, [s |-> s, l |-> NoLocals], kv).s

\* The results of the decoders: Ok(entry), Err(KVError::IO(UnexpectedEof)) or
\* Err(KVError::InvalidData), with the stream as the call left it.
ReadOk(e, s) == [tag |-> "Ok", entry |-> e, s |-> s]
ReadErr(tag, s) == [tag |-> tag, entry |-> NoEntry, s |-> s]

\* read_from_stream_impl: the six reads, then the two UTF-8 checks.
ReadFromStreamImpl(s0) ==
    LET r1 == ReadExact(s0, 2)
        r2 == ReadExact(r1.s, U16FromLE(r1.bytes))
        r3 == ReadExact(r2.s, 4)
        r4 == ReadExactU32(r3.s, U32FromLE(r3.bytes))
        r5 == ReadExact(r4.s, 2)
        r6 == ReadExact(r5.s, U16FromLE(r5.bytes))
    IN  IF ~r1.ok THEN ReadErr("UnexpectedEof", r1.s)
        ELSE IF ~r2.ok THEN ReadErr("UnexpectedEof", r2.s)
        ELSE IF ~r3.ok THEN ReadErr("UnexpectedEof", r3.s)
        ELSE IF ~r4.ok THEN ReadErr("UnexpectedEof", r4.s)
        ELSE IF ~r5.ok THEN ReadErr("UnexpectedEof", r5.s)
        ELSE IF ~r6.ok THEN ReadErr("UnexpectedEof", r6.s)
        ELSE IF ~Utf8Valid(r2.bytes) THEN ReadErr("InvalidData", r6.s)
        ELSE IF ~Utf8Valid(r6.bytes) THEN ReadErr("InvalidData", r6.s)
        ELSE ReadOk(KVEntry(r2.bytes, r4.bytes, r6.bytes), r6.s)

\* tokio::io::copy(&mut &in_stream[..], &mut decomp_stream): decomp_stream
\* receives the bytes of in_stream as they are.
CopyToDecompStream(in_stream) == in_stream

\* read_from_stream: the flags byte, then either the frame (frame_len, the
\* frame's bytes, the copy, the body parsed from the copy) or the body parsed
\* from the stream itself.
ReadFromStream(s0) ==
    LET f == ReadExact(s0, 1)
    IN  IF ~f.ok THEN ReadErr("UnexpectedEof", f.s)
        ELSE IF BitAnd128(BAt(f.bytes, 1)) # 0
        THEN LET n  == ReadExact(f.s, 4)
                 fr == ReadExactU32(n.s, U32FromLE(n.bytes))
                 d  == ReadFromStreamImpl(
                          [kind |-> "file",
                           data |-> CopyToDecompStream(fr.bytes), pos |-> 0,
                           werr |-> FALSE])
             IN  IF ~n.ok THEN ReadErr("UnexpectedEof", n.s)
                 ELSE IF ~fr.ok THEN ReadErr("UnexpectedEof", fr.s)
                 ELSE [d EXCEPT !.s = fr.s]
        ELSE ReadFromStreamImpl(f.s)

\* ------------------------------------------------------------------- state

\* The inputs: keys, values and MIME strings of requests.  The values sit on
\* both sides of the compression threshold; the one above it is random
\* bytes.
Keys == { Bytes(<< 97 >>), Bytes(<< 98, 99 >>) }
Payloads == { Entry(Fill(CompressThreshold, 66), << >>),
              Entry(Noise(CompressThreshold + 1), Bytes(<< 116 >>)) }
\* The calls of set of the single caller: the first key with both values,
\* the second key with the value above the threshold.
SetCalls ==
    { c \in Keys \X Payloads : BLen(c[1]) = 1 \/ BLen(c[2].value) > CompressThreshold }
\* The handlers that may run at once: the HTTP server's, and the single
\* caller of the core API.  The worker threads of the HTTP server, each of
\* which runs the handlers of its connections in turn, and the one thread
\* of the single caller.
Workers == { 1, 2 }
Callers == { 1 }
Threads == { 1, 2 }
CallerThreads == { 1 }

VARIABLES
    phase,      \* main: "start", "loading" (KVStore::new), "ready" (serving),
                \* "failed" (KVStore::new returned Err, main panicked)
    openErr,    \* the KVError KVStore::new returned: "none", "IO", "InvalidData"
    entries,    \* KVStore.entries, the index: key -> Entry
    stream,     \* KVStore.stream
    lock,       \* AppState.store, the Mutex: 0 (free) or the handler holding it
    pc,         \* each handler: "idle", "lock", "get", "set", "done"
    thread,     \* each handler: the worker thread it runs on, 0 when idle
    req,        \* each handler's request
    step,       \* each handler's next step inside the encoder
    loc,        \* each handler's locals inside write_to_stream_compressed
    resp,       \* each handler's response, once it has one
    sets,       \* set requests accepted so far
    restarted,  \* history: the process has been restarted
    lastOk,     \* history: key -> Entry of the last set that returned Ok, ever
    instOk,     \* history: the same, since this Store was constructed
    openLog,    \* history: the bytes of the stream when this Store was opened
    failures,   \* history: set calls that returned Err or were cut off
    cPc,        \* codec round trip: "off", "new", "written", "read"
    cEntry,     \* codec round trip: the KVEntry written
    cEnc,       \* codec round trip: the encoder used, "raw" or "compressed"
    cStream,    \* codec round trip: the buffer written to
    cPre,       \* codec round trip: the buffer as it was before the write
    cRead,      \* codec round trip: what read_from_stream returned
    twin,       \* twin stores: the KVStore on MemoryNoOpRWS, [entries, stream]
    pairRes,    \* twin stores: what the last call returned, on the file and
                \* on the memory store
    logRecs     \* replay of a given log: the records the log was made of

storeVars == << phase, openErr, entries, stream, lock, pc, thread, req, step,
                loc, resp, sets, restarted, lastOk, instOk, openLog, failures >>
codecVars == << cPc, cEntry, cEnc, cStream, cPre, cRead >>
pairVars == << twin, pairRes >>
otherVars == << cPc, cEntry, cEnc, cStream, cPre, cRead, twin, pairRes,
               logRecs >>
vars == << phase, openErr, entries, stream, lock, pc, thread, req, step, loc,
           resp, sets, restarted, lastOk, instOk, openLog, failures,
           cPc, cEntry, cEnc, cStream, cPre, cRead, twin, pairRes, logRecs >>

\* HashMap::new() and HashMap::insert.
EmptyMap == << >>
Insert(m, k, v) == [x \in (DOMAIN m) \cup {k} |-> IF x = k THEN v ELSE m[x]]

NoReq == [op |-> "none", key |-> << >>, value |-> << >>, mime |-> << >>]
\* What a handler answered: the HTTP status, the Entry in the body of a 200
\* of get_value, and what KVStore::get returned to get_value.
NoGot == [found |-> FALSE, entry |-> Entry(<< >>, << >>)]
NoResp == [status |-> 0, entry |-> Entry(<< >>, << >>), got |-> NoGot]

StoreInit(kind) ==
    /\ phase = "start"
    /\ openErr = "none"
    /\ entries = EmptyMap
    /\ stream = NewStream(kind)
    /\ lock = 0
    /\ pc = [w \in Workers |-> "idle"]
    /\ thread = [w \in Workers |-> 0]
    /\ req = [w \in Workers |-> NoReq]
    /\ step = [w \in Workers |-> 1]
    /\ loc = [w \in Workers |-> NoLocals]
    /\ resp = [w \in Workers |-> NoResp]
    /\ sets = 0
    /\ restarted = FALSE
    /\ lastOk = EmptyMap
    /\ instOk = EmptyMap
    /\ openLog = << >>
    /\ failures = 0

CodecOff ==
    /\ cPc = "off"
    /\ cEntry = NoEntry
    /\ cEnc = "raw"
    /\ cStream = NewStream("file")
    /\ cPre = NewStream("file")
    /\ cRead = ReadErr("none", NewStream("file"))

NoTwin == [entries |-> EmptyMap, stream |-> NewStream("memory")]
NoPairRes == [op |-> "none", req |-> NoReq, at |-> 0, file |-> "none",
              mem |-> "none"]
PairOff ==
    /\ twin = NoTwin
    /\ pairRes = NoPairRes

LogOff == logRecs = << >>

\* main: the file ./test.db is created empty the first time; a test builds
\* its store on MemoryNoOpRWS::new().
Init ==
    /\ \E kind \in {"file", "memory"} : StoreInit(kind)
    /\ CodecOff
    /\ PairOff
    /\ LogOff

\* ----------------------------------------------------------- KVStore::new

\* OpenOutcome with UnexpectedEof returned like any other io::Error.
OpenOutcomeMut(tag) == IF tag = "Ok" THEN "loading" ELSE "failed"

\* The match of KVStore::new on one read_from_stream result: Ok inserts and
\* loops, Err(IO(UnexpectedEof)) breaks out of the loop to Ok(KVStore), any
\* other error returns it.
OpenOutcome(tag) ==
    CASE tag = "Ok" -> "loading"
      [] tag = "UnexpectedEof" -> "ready"
      [] OTHER -> "failed"

\* backing_stream.seek(SeekFrom::Start(0)).
OpenSeek ==
    /\ phase = "start"
    /\ stream' = SeekStart(stream, 0)
    /\ phase' = "loading"
    /\ UNCHANGED thread
    /\ UNCHANGED << openErr, entries, lock, pc, req, step, loc, resp, sets,
                    restarted, lastOk, instOk, failures >>
    /\ openLog' = stream.data
    /\ UNCHANGED otherVars

\* One iteration of the loop of KVStore::new.
OpenRead ==
    /\ phase = "loading"
    /\ LET r == ReadFromStream(stream)
       IN  /\ stream' = r.s
           /\ phase' = OpenOutcome(r.tag)
           /\ entries' = IF r.tag = "Ok"
                         THEN Insert(entries, r.entry.key, EntryFrom(r.entry))
                         ELSE IF OpenOutcome(r.tag) = "failed" THEN EmptyMap
                         ELSE entries
           /\ openErr' = IF OpenOutcome(r.tag) = "failed" THEN r.tag ELSE openErr
    /\ UNCHANGED thread
    /\ UNCHANGED << lock, pc, req, step, loc, resp, sets, restarted, lastOk,
                    instOk, openLog, failures >>
    /\ UNCHANGED otherVars

\* The seek or a read of KVStore::new fails with an io::Error that is not
\* UnexpectedEof (a file only; MemoryNoOpRWS never fails): the error is
\* returned and main panics on it.
OpenIoError ==
    /\ phase \in {"start", "loading"}
    /\ stream.kind = "file"
    /\ phase' = "failed"
    /\ openErr' = "IO"
    /\ entries' = EmptyMap
    /\ UNCHANGED thread
    /\ UNCHANGED << stream, lock, pc, req, step, loc, resp, sets, restarted,
                    lastOk, instOk, openLog, failures >>
    /\ UNCHANGED otherVars

\* The process ends (killed, or after the panic of main) and main runs
\* again: the file keeps its bytes, everything in memory is gone, and a
\* handler cut off inside set leaves what it had written.
Restart ==
    /\ phase # "codec"
    /\ restarted' = TRUE
    /\ phase' = "start"
    /\ openErr' = "none"
    /\ entries' = EmptyMap
    /\ stream' = [stream EXCEPT !.pos = 0, !.werr = FALSE]
    /\ lock' = 0
    /\ pc' = [w \in Workers |-> "idle"]
    /\ thread' = [w \in Workers |-> 0]
    /\ req' = [w \in Workers |-> NoReq]
    /\ step' = [w \in Workers |-> 1]
    /\ loc' = [w \in Workers |-> NoLocals]
    /\ resp' = [w \in Workers |-> NoResp]
    /\ instOk' = EmptyMap
    /\ openLog' = << >>
    /\ LET cut == Cardinality({w \in Workers : pc[w] = "set" /\ step[w] > 1})
       IN  /\ failures + cut <= MaxFailures
           /\ failures' = failures + cut
    /\ UNCHANGED << sets, lastOk >>
    /\ UNCHANGED otherVars

\* ------------------------------------------------------------ the handlers

\* A worker thread runs one handler at a time, from one await that is not
\* ready to the next.  A handler that has called lock() keeps its thread
\* until it has the guard, because std::sync::Mutex::lock blocks the thread
\* instead of awaiting, and get_value, which awaits nothing, keeps it to its
\* end: meanwhile no other handler of that thread takes a step.  set_value
\* holds the guard across the awaits of KVStore::set (main.rs:77-86), so a
\* handler that calls lock() on the thread of a set in progress stops that
\* set for good.
ThreadBusy(t, w) ==
    \E v \in Workers \ {w} : thread[v] = t /\ pc[v] \in {"lock", "get"}

\* A GET /{key} reaches get_value on the worker thread t.
RecvGet(w, t, key) ==
    /\ phase = "ready"
    /\ pc[w] = "idle"
    /\ ~ThreadBusy(t, w)
    /\ thread' = [thread EXCEPT ![w] = t]
    /\ pc' = [pc EXCEPT ![w] = "lock"]
    /\ req' = [req EXCEPT ![w] = [op |-> "get", key |-> key, value |-> << >>,
                                  mime |-> << >>]]
    /\ UNCHANGED << phase, openErr, entries, stream, lock, step, loc, resp,
                    sets, restarted, lastOk, instOk, openLog, failures >>
    /\ UNCHANGED otherVars

\* A POST /{key} reaches set_value with its body and content type, on the
\* worker thread t.
RecvSet(w, t, key, value, mime) ==
    /\ phase = "ready"
    /\ pc[w] = "idle"
    /\ ~ThreadBusy(t, w)
    /\ thread' = [thread EXCEPT ![w] = t]
    /\ sets < MaxSets
    /\ sets' = sets + 1
    /\ pc' = [pc EXCEPT ![w] = "lock"]
    /\ req' = [req EXCEPT ![w] = [op |-> "set", key |-> key, value |-> value,
                                  mime |-> mime]]
    /\ UNCHANGED << phase, openErr, entries, stream, lock, step, loc, resp,
                    restarted, lastOk, instOk, openLog, failures >>
    /\ UNCHANGED otherVars

\* MutexFree with no mutual exclusion: the lock is handed out at once.
MutexFreeMut(l) == TRUE

\* Mutex::lock returns once no other handler holds the guard.
MutexFree(l) == l = 0

\* data.store.lock().unwrap() in get_value and set_value returns.  (The
\* Mutex is never poisoned: no code panics while holding the guard.)
Lock(w) ==
    /\ pc[w] = "lock"
    /\ ~ThreadBusy(thread[w], w)
    /\ MutexFree(lock)
    /\ lock' = w
    /\ pc' = [pc EXCEPT ![w] = req[w].op]
    /\ step' = [step EXCEPT ![w] = 1]
    /\ loc' = [loc EXCEPT ![w] = NoLocals]
    /\ UNCHANGED thread
    /\ UNCHANGED << phase, openErr, entries, stream, req, resp, sets, restarted,
                    lastOk, instOk, openLog, failures >>
    /\ UNCHANGED otherVars

\* KVStore::get: Some(entry) as [found, entry].
Get(m, key) ==
    IF key \in DOMAIN m THEN [found |-> TRUE, entry |-> m[key]]
    ELSE [found |-> FALSE, entry |-> Entry(<< >>, << >>)]

\* The bytes of x after its first o are those of p, as far as p goes.
BMatchAt(x, o, p) == \A i \in 1..BLen(p) : BAt(x, o + i) = BAt(p, i)

\* str::starts_with, str::ends_with and str::contains, on the bytes.
BStartsWith(x, p) == BLen(p) <= BLen(x) /\ BMatchAt(x, 0, p)
BEndsWith(x, p) == BLen(p) <= BLen(x) /\ BMatchAt(x, BLen(x) - BLen(p), p)
BContains(x, p) == \E o \in 0..(BLen(x) - BLen(p)) : BMatchAt(x, o, p)

\* str::trim_end_matches(p), p not empty: p is taken off the end of x as
\* often as x ends with it.
RECURSIVE TrimEndMatches(_, _)
TrimEndMatches(x, p) ==
    IF BEndsWith(x, p) THEN TrimEndMatches(BTake(x, BLen(x) - BLen(p)), p)
    ELSE x

AnyType == Bytes(<< 42, 47, 42 >>)      \* "*/*"
SlashStar == Bytes(<< 47, 42 >>)        \* "/*"
Slash == Bytes(<< 47 >>)                \* "/"

\* accept_header_matches, main.rs:15-28.
AcceptHeaderMatches(header, mime_type) ==
    IF BContains(header, mime_type) \/ BContains(header, AnyType) THEN TRUE
    ELSE IF BEndsWith(mime_type, SlashStar)
    THEN \/ BStartsWith(header, TrimEndMatches(mime_type, SlashStar))
         \/ BStartsWith(header, BCat(TrimEndMatches(mime_type, SlashStar), Slash))
    ELSE IF BEndsWith(header, SlashStar)
    THEN \/ BStartsWith(mime_type, TrimEndMatches(header, SlashStar))
         \/ BStartsWith(mime_type, BCat(TrimEndMatches(header, SlashStar), Slash))
    ELSE FALSE

\* HeaderValue::to_str is Ok: every byte is a visible ASCII character, a
\* space or a tab.
ToStrOk(v) ==
    \A i \in 1..BLen(v) :
       (BAt(v, i) >= 32 /\ BAt(v, i) < 127) \/ BAt(v, i) = 9

\* The Accept header of a request, when it has one.
NoAccept == [present |-> FALSE, value |-> << >>]
Accept(v) == [present |-> TRUE, value |-> v]

\* get_value, lines 56-61: the answer is not 406.  The check is made only
\* for a header that is there and that to_str can read.
AcceptOk(accept, mime_type) ==
    \/ ~accept.present
    \/ ~ToStrOk(accept.value)
    \/ AcceptHeaderMatches(accept.value, mime_type)

\* Whether a byte may stand in an HTTP header value (http::HeaderValue): no
\* control character but the tab.  The bytes of a run of random bytes are
\* looked at one by one.
HeaderByteOk(x) == (x >= 32 /\ x # 127) \/ x = 9
HeaderValueOk(v) ==
    \A i \in 1..Len(v) :
       IF v[i].b >= 0 THEN HeaderByteOk(v[i].b)
       ELSE \A j \in 0..(v[i].n - 1) : HeaderByteOk(NoiseByte(j - v[i].b))

\* The response of get_value for g, what KVStore::get returned.  acceptOk:
\* the request has no Accept header that rules the stored MIME type out.
\* HttpResponse::Ok().content_type(mime).body(value) is a 200 with the
\* Entry when the MIME string may stand in a header, and else the 500 of
\* the builder's error.
GetResponse(g, acceptOk) ==
    IF ~g.found
    THEN [status |-> 404, entry |-> Entry(<< >>, << >>), got |-> g]
    ELSE IF ~acceptOk
    THEN [status |-> 406, entry |-> Entry(<< >>, << >>), got |-> g]
    ELSE IF ~HeaderValueOk(g.entry.mime)
    THEN [status |-> 500, entry |-> Entry(<< >>, << >>), got |-> g]
    ELSE [status |-> 200, entry |-> g.entry, got |-> g]

\* The Accept headers of the GET requests: none, "*/*", "t", "x", and one
\* that to_str cannot read.
AcceptHeaders ==
    { NoAccept, Accept(AnyType), Accept(Bytes(<< 116 >>)),
      Accept(Bytes(<< 120 >>)), Accept(Bytes(<< 233 >>)) }

\* StreamAfterGet with a get that rewinds the stream.
StreamAfterGetMut(s) == SeekStart(s, 0)

\* What the stream is after KVStore::get.
StreamAfterGet(s) == s

\* The rest of get_value, the guard dropped at its end.
GetValue(w) ==
    /\ pc[w] = "get"
    /\ ~ThreadBusy(thread[w], w)
    /\ \E accept \in AcceptHeaders :
          resp' = [resp EXCEPT ![w] =
                      GetResponse(Get(entries, req[w].key),
                                  AcceptOk(accept,
                                           Get(entries, req[w].key).entry.mime))]
    /\ stream' = StreamAfterGet(stream)
    /\ lock' = IF lock = w THEN 0 ELSE lock
    /\ pc' = [pc EXCEPT ![w] = "done"]
    /\ UNCHANGED thread
    /\ UNCHANGED << phase, openErr, entries, req, step, loc, sets, restarted,
                    lastOk, instOk, openLog, failures >>
    /\ UNCHANGED otherVars

\* UseCompressed with the comparison off by one: >= 1024.
UseCompressedMut(value) == BLen(value) >= CompressThreshold

\* KVStore::set, line 108: the encoder is chosen by the value's length.
UseCompressed(value) == BLen(value) > CompressThreshold

ReqEntry(r) == KVEntry(r.key, r.value, r.mime)
NumSteps(r) == IF UseCompressed(r.value) THEN NumCompressedSteps ELSE NumRawSteps

\* Step i of the encoder KVStore::set chose, on c = [s: stream, l: locals].
EncoderStep(i, c, r) ==
    IF UseCompressed(r.value) THEN CompressedStep(i, c, ReqEntry(r))
    ELSE [c EXCEPT !.s = RawStep(i, c.s, ReqEntry(r))]

\* What step i of the encoder asks of the stream: "write", a write_all of
\* a buffer that is not empty; "flush", the encoder's flush, which writes
\* the frame and flushes the stream; "seek", a seek or a position query;
\* "none" when the step makes no call on the stream, as the writes into the
\* encoder and the write_all of an empty key, value or MIME string.
StepCall(i, r) ==
    IF UseCompressed(r.value)
    THEN CASE i \in {1, 3, 9} -> "write"
           [] i = 6 -> "flush"
           [] i = 5 -> "none"
           [] OTHER -> "seek"
    ELSE IF RawWrite(i, ReqEntry(r)) = << >> THEN "none" ELSE "write"

\* Whether step i makes a call on the stream (and so may return an
\* io::Error).
StepDoesIo(i, r) == StepCall(i, r) # "none"

\* The buffer step i hands to the stream, the locals being l.
StepBuffer(i, l, r) ==
    IF UseCompressed(r.value) THEN CompressedBuffer(i, l)
    ELSE RawWrite(i, ReqEntry(r))

\* How many bytes of buf a write that fails may have written before the
\* fault: fewer than all of them, the fault near the start or near the end
\* of the buffer.
WriteCuts(buf) ==
    (0..(Min(MaxCut, BLen(buf)) - 1))
       \cup (Max(0, BLen(buf) - MaxCut)..(BLen(buf) - 1))

\* The stream after a write of buf that failed with k bytes written: std's
\* write_all loop has written them and moved the cursor.
WriteCut(s, buf, k) == WriteAll(s, BTake(buf, k))

\* EntriesAfterSet with entry(key).or_insert(value): a present key keeps
\* its old Entry.
EntriesAfterSetMut(m, r) ==
    IF r.key \in DOMAIN m THEN m ELSE Insert(m, r.key, Entry(r.value, r.mime))

\* EntriesAfterError with the key of the failed set taken out of the index.
EntriesAfterErrorDrop(m, r) == [x \in (DOMAIN m) \ {r.key} |-> m[x]]

\* EntriesAfterError with the insert made before the write.
EntriesAfterErrorMut(m, r) == Insert(m, r.key, Entry(r.value, r.mime))

\* self.entries.insert(key.to_owned(), value), reached when the encoder
\* returned Ok(()).
EntriesAfterSet(m, r) == Insert(m, r.key, Entry(r.value, r.mime))

\* The index when the encoder's `?` returns the error.
EntriesAfterError(m, r) == m

\* The handler w goes on from the step it is at, the stream now s2 and its
\* locals l2: to the next step, or, after the last one, to the update of
\* the index, set's Ok and the 200 of set_value, the guard dropped.
SetAdvance(w, s2, l2) ==
    LET last == step[w] = NumSteps(req[w])
        e == Entry(req[w].value, req[w].mime)
    IN  /\ stream' = s2
        /\ loc' = [loc EXCEPT ![w] = IF last THEN NoLocals ELSE l2]
        /\ step' = [step EXCEPT ![w] = IF last THEN 1 ELSE step[w] + 1]
        /\ pc' = [pc EXCEPT ![w] = IF last THEN "done" ELSE "set"]
        /\ entries' = IF last THEN EntriesAfterSet(entries, req[w]) ELSE entries
        /\ lastOk' = IF last THEN Insert(lastOk, req[w].key, e) ELSE lastOk
        /\ instOk' = IF last THEN Insert(instOk, req[w].key, e) ELSE instOk
        /\ openLog' = openLog
        /\ resp' = IF last THEN [resp EXCEPT ![w] = [status |-> 200,
                                     entry |-> Entry(<< >>, << >>),
                                     got |-> NoGot]]
                   ELSE resp
        /\ lock' = IF last /\ lock = w THEN 0 ELSE lock

\* One step of KVStore::set inside the encoder succeeds.  A write or a
\* flush does not when the file has the error of an earlier write to
\* report.
SetStep(w) ==
    /\ pc[w] = "set"
    /\ ~ThreadBusy(thread[w], w)
    /\ stream.werr => StepCall(step[w], req[w]) \notin {"write", "flush"}
    /\ \E c \in {EncoderStep(step[w], [s |-> stream, l |-> loc[w]], req[w])} :
          SetAdvance(w, c.s, c.l)
    /\ UNCHANGED thread
    /\ UNCHANGED << phase, openErr, req, sets, restarted, failures >>
    /\ UNCHANGED otherVars

\* tokio::fs::File::poll_write hands the buffer to the blocking pool and
\* answers Ok at once; the write then fails there, after some of the bytes
\* were written.  set goes on, and the error waits for the next write or
\* flush of the file; a seek leaves it waiting.  When the lost write is the
\* last call of set, set returns Ok.
WriteLost(w) ==
    /\ pc[w] = "set"
    /\ ~ThreadBusy(thread[w], w)
    /\ stream.kind = "file"
    /\ ~stream.werr
    /\ failures < MaxFailures
    /\ StepCall(step[w], req[w]) = "write"
    /\ failures' = failures + 1
    /\ \E buf \in {StepBuffer(step[w], loc[w], req[w])} :
          \E k \in WriteCuts(buf) :
             SetAdvance(w, [WriteCut(stream, buf, k) EXCEPT !.werr = TRUE],
                        loc[w])
    /\ UNCHANGED thread
    /\ UNCHANGED << phase, openErr, req, sets, restarted >>
    /\ UNCHANGED otherVars

\* One step of the encoder returns an io::Error (a file only): a write or a
\* flush that reports the error of an earlier write and does nothing more, a
\* seek or a position query that fails, or the encoder's flush, whose write
\* of the frame fails after some of the frame was written.  set returns the
\* error, set_value answers 500 and drops the guard.
SetStepFails(w) ==
    /\ pc[w] = "set"
    /\ ~ThreadBusy(thread[w], w)
    /\ stream.kind = "file"
    /\ StepDoesIo(step[w], req[w])
    /\ \E call \in {StepCall(step[w], req[w])} :
          \/ /\ stream.werr
             /\ call \in {"write", "flush"}
             /\ stream' = [stream EXCEPT !.werr = FALSE]
             /\ failures' = failures
          \/ /\ call = "seek"
             /\ failures < MaxFailures
             /\ stream' = stream
             /\ failures' = failures + 1
          \/ /\ call = "flush"
             /\ ~stream.werr
             /\ failures < MaxFailures
             /\ \E buf \in {StepBuffer(step[w], loc[w], req[w])} :
                   \E k \in WriteCuts(buf) : stream' = WriteCut(stream, buf, k)
             /\ failures' = failures + 1
    /\ entries' = EntriesAfterError(entries, req[w])
    /\ resp' = [resp EXCEPT ![w] = [status |-> 500, entry |-> Entry(<< >>, << >>),
                                   got |-> NoGot]]
    /\ pc' = [pc EXCEPT ![w] = "done"]
    /\ step' = [step EXCEPT ![w] = 1]
    /\ loc' = [loc EXCEPT ![w] = NoLocals]
    /\ lock' = IF lock = w THEN 0 ELSE lock
    /\ UNCHANGED thread
    /\ UNCHANGED << phase, openErr, req, sets, restarted, lastOk, instOk,
                    openLog >>
    /\ UNCHANGED otherVars

\* The handler's response is handed to the server and the handler is over.
Reply(w) ==
    /\ pc[w] = "done"
    /\ ~ThreadBusy(thread[w], w)
    /\ pc' = [pc EXCEPT ![w] = "idle"]
    /\ thread' = [thread EXCEPT ![w] = 0]
    /\ req' = [req EXCEPT ![w] = NoReq]
    /\ resp' = [resp EXCEPT ![w] = NoResp]
    /\ UNCHANGED << phase, openErr, entries, stream, lock, step, loc, sets,
                    restarted, lastOk, instOk, openLog, failures >>
    /\ UNCHANGED otherVars

\* The core API under one caller at a time: open, then get and set one
\* after the other, on a file or on the no-op memory stream, across restarts.
Next ==
    \/ OpenSeek
    \/ OpenRead
    \/ OpenIoError
    \/ Restart
    \/ \E w \in Callers, t \in CallerThreads, k \in Keys : RecvGet(w, t, k)
    \/ \E w \in Callers, t \in CallerThreads, c \in SetCalls :
          RecvSet(w, t, c[1], c[2].value, c[2].mime)
    \/ \E w \in Callers : Lock(w)
    \/ \E w \in Callers : GetValue(w)
    \/ \E w \in Callers : SetStep(w)
    \/ \E w \in Callers : WriteLost(w)
    \/ \E w \in Callers : SetStepFails(w)
    \/ \E w \in Callers : Reply(w)

Spec == Init /\ [][Next]_vars

\* ------------------------------------------------- the HTTP server's runs

HttpKeys == { Bytes(<< 97 >>) }
HttpPayloads == { Entry(Fill(1, 65), Bytes(<< 116 >>)),
                  Entry(Noise(CompressThreshold + 1), Bytes(<< 116 >>)) }

InitHttp == StoreInit("file") /\ CodecOff /\ PairOff /\ LogOff

\* main.rs: the store on a file, and the server's handlers running at once.
NextHttp ==
    \/ OpenSeek
    \/ OpenRead
    \/ \E w \in Workers, t \in Threads, k \in HttpKeys : RecvGet(w, t, k)
    \/ \E w \in Workers, t \in Threads, k \in HttpKeys, e \in HttpPayloads :
          RecvSet(w, t, k, e.value, e.mime)
    \/ \E w \in Workers : Lock(w)
    \/ \E w \in Workers : GetValue(w)
    \/ \E w \in Workers : SetStep(w)
    \/ \E w \in Workers : WriteLost(w)
    \/ \E w \in Workers : SetStepFails(w)
    \/ \E w \in Workers : Reply(w)

SpecHttp == InitHttp /\ [][NextHttp]_vars

\* ------------------------------------------------- the codec's round trip

\* entry.rs, mod tests: an entry is written to a buffer by one of the
\* encoders and read back by read_from_stream from where the write began.
\* The buffer is empty, or holds an earlier record with the cursor at its
\* end or a few bytes before its end.
CodecKeys == { << >>, Bytes(<< 97 >>), Bytes(<< 98, 99 >>), Bytes(<< 195, 169 >>) }
CodecValues == { << >>, Fill(1, 65), Fill(2, 200),
                 Fill(CompressThreshold, 66), Noise(CompressThreshold),
                 Noise(CompressThreshold + 1), Noise(CompressThreshold + 2) }
CodecMimes == { << >>, Bytes(<< 116 >>) }
CodecBuffers ==
    LET s == WriteToStream(NewStream("file"),
                           KVEntry(Bytes(<< 122 >>), Fill(3, 9), Bytes(<< 116 >>)))
    IN  { NewStream("file"), s, [s EXCEPT !.pos = s.pos - 4] }

InitCodec ==
    /\ phase = "codec"
    /\ openErr = "none"
    /\ entries = EmptyMap
    /\ stream = NewStream("file")
    /\ lock = 0
    /\ pc = [w \in Workers |-> "idle"]
    /\ thread = [w \in Workers |-> 0]
    /\ req = [w \in Workers |-> NoReq]
    /\ step = [w \in Workers |-> 1]
    /\ loc = [w \in Workers |-> NoLocals]
    /\ resp = [w \in Workers |-> NoResp]
    /\ sets = 0
    /\ restarted = FALSE
    /\ lastOk = EmptyMap
    /\ instOk = EmptyMap
    /\ openLog = << >>
    /\ failures = 0
    /\ cPc = "new"
    /\ cEntry \in { KVEntry(k, v, m) : k \in CodecKeys, v \in CodecValues,
                                       m \in CodecMimes }
    /\ cEnc = "raw"
    /\ cPre \in CodecBuffers
    /\ cStream = cPre
    /\ cRead = ReadErr("none", NewStream("file"))
    /\ PairOff
    /\ LogOff

\* entry.write_to_stream(&mut writer).
CodecWriteRaw ==
    /\ cPc = "new"
    /\ cStream' = WriteToStream(cStream, cEntry)
    /\ cEnc' = "raw"
    /\ cPc' = "written"
    /\ UNCHANGED << cEntry, cPre, cRead >>
    /\ UNCHANGED storeVars
    /\ UNCHANGED << twin, pairRes, logRecs >>

\* entry.write_to_stream_compressed(&mut cursor), of an entry whose body the
\* compressor stores.
CodecWriteCompressed ==
    /\ cPc = "new"
    /\ ZstdStoresRaw(Concat(BodyWrites(cEntry)))
    /\ cStream' = WriteToStreamCompressed(cStream, cEntry)
    /\ cEnc' = "compressed"
    /\ cPc' = "written"
    /\ UNCHANGED << cEntry, cPre, cRead >>
    /\ UNCHANGED storeVars
    /\ UNCHANGED << twin, pairRes, logRecs >>

\* KVEntry::read_from_stream(&mut reader), the reader where the record starts.
CodecRead ==
    /\ cPc = "written"
    /\ cRead' = ReadFromStream([cStream EXCEPT !.pos = cPre.pos])
    /\ cPc' = "read"
    /\ UNCHANGED << cEntry, cEnc, cStream, cPre >>
    /\ UNCHANGED storeVars
    /\ UNCHANGED << twin, pairRes, logRecs >>

NextCodec == CodecWriteRaw \/ CodecWriteCompressed \/ CodecRead

SpecCodec == InitCodec /\ [][NextCodec]_vars

\* ------------------------------------------------ the calls of the core API

\* The loop of KVStore::new from its first read_from_stream on: every Ok is
\* inserted, UnexpectedEof ends the loop with Ok(KVStore), any other error
\* is returned.
RECURSIVE Replay(_, _)
ReplayMatch(r, m) ==
    CASE OpenOutcome(r.tag) = "loading" ->
            Replay(r.s, Insert(m, r.entry.key, EntryFrom(r.entry)))
      [] OpenOutcome(r.tag) = "ready" ->
            [tag |-> "Ok", entries |-> m, stream |-> r.s]
      [] OTHER -> [tag |-> r.tag, entries |-> EmptyMap, stream |-> r.s]
Replay(s, m) == ReplayMatch(ReadFromStream(s), m)

\* KVStore::new(backing_stream), start to return.
KVNew(s) == Replay(SeekStart(s, 0), EmptyMap)

\* KVSet with the insert made only when the stream has grown.
KVSetMut(st, r) ==
    LET s2 == IF UseCompressed(r.value)
              THEN WriteToStreamCompressed(st.stream, ReqEntry(r))
              ELSE WriteToStream(st.stream, ReqEntry(r))
    IN  [tag |-> "Ok",
         entries |-> IF BLen(s2.data) > BLen(st.stream.data)
                     THEN EntriesAfterSet(st.entries, r) ELSE st.entries,
         stream |-> s2]

\* KVStore::set(key, value) on the store st = [entries, stream] when no
\* write fails, start to Ok(()).
KVSet(st, r) ==
    LET s2 == IF UseCompressed(r.value)
              THEN WriteToStreamCompressed(st.stream, ReqEntry(r))
              ELSE WriteToStream(st.stream, ReqEntry(r))
    IN  [tag |-> "Ok", entries |-> EntriesAfterSet(st.entries, r), stream |-> s2]

\* ------------------------------------------------------- the twin stores

\* store.rs, FileBackedKVStore and MemoryBackedKVStore: the same calls are
\* made on a store on a file (entries, stream) and on a store on
\* MemoryNoOpRWS (twin), both opened on an empty log, and no write fails.
\* The keys and MIME strings include ones longer than a u16 can count.
PairKeys == { Bytes(<< 97 >>), Bytes(<< 98, 99 >>), Fill(65536, 107) }
PairPayloads == { Entry(Fill(2, 65), Bytes(<< 116 >>)),
                  Entry(Noise(CompressThreshold + 1), Bytes(<< 116 >>)),
                  Entry(<< >>, Fill(65537, 109)) }
\* The calls of set: every key with every payload that set writes raw or
\* whose body the compressor stores.
PairCalls ==
    { c \in PairKeys \X PairPayloads :
         UseCompressed(c[2].value) =>
            ZstdStoresRaw(Concat(BodyWrites(KVEntry(c[1], c[2].value, c[2].mime)))) }

InitPair == StoreInit("file") /\ CodecOff /\ PairOff /\ LogOff

\* KVStore::new on both streams.
PairOpen ==
    /\ phase = "start"
    /\ \E new \in {[s \in {stream, twin.stream} |-> KVNew(s)]} :
       \E f \in {new[stream]}, m \in {new[twin.stream]} :
           /\ phase' = IF f.tag = "Ok" /\ m.tag = "Ok" THEN "ready" ELSE "failed"
           /\ entries' = f.entries
           /\ stream' = f.stream
           /\ twin' = [entries |-> m.entries, stream |-> m.stream]
           /\ pairRes' = [NoPairRes EXCEPT !.op = "new", !.file = f.tag,
                                           !.mem = m.tag]
    /\ UNCHANGED thread
    /\ UNCHANGED << openErr, lock, pc, req, step, loc, resp, sets, restarted,
                    lastOk, instOk, openLog, failures >>
    /\ UNCHANGED << codecVars, logRecs >>

\* store.set(key, Entry::new(value, mime)) on both stores.
PairSet(key, value, mime) ==
    /\ phase = "ready"
    /\ sets < MaxSets
    /\ sets' = sets + 1
    /\ \E r \in {[op |-> "set", key |-> key, value |-> value, mime |-> mime]},
          file \in {[entries |-> entries, stream |-> stream]} :
       \E set \in {[st \in {file, twin} |-> KVSet(st, r)]} :
       \E f \in {set[file]}, m \in {set[twin]} :
           /\ entries' = f.entries
           /\ stream' = f.stream
           /\ twin' = [entries |-> m.entries, stream |-> m.stream]
           /\ pairRes' = [op |-> "set", req |-> r, at |-> stream.pos,
                          file |-> f.tag, mem |-> m.tag]
    /\ UNCHANGED thread
    /\ UNCHANGED << phase, openErr, lock, pc, req, step, loc, resp, restarted,
                    lastOk, instOk, openLog, failures >>
    /\ UNCHANGED << codecVars, logRecs >>

\* store.get(key) on both stores.
PairGet(key) ==
    /\ phase = "ready"
    /\ pairRes' = [op |-> "get",
                   req |-> [op |-> "get", key |-> key, value |-> << >>,
                            mime |-> << >>],
                   at |-> stream.pos,
                   file |-> Get(entries, key), mem |-> Get(twin.entries, key)]
    /\ stream' = StreamAfterGet(stream)
    /\ twin' = [twin EXCEPT !.stream = StreamAfterGet(twin.stream)]
    /\ UNCHANGED thread
    /\ UNCHANGED << phase, openErr, entries, lock, pc, req, step, loc, resp,
                    sets, restarted, lastOk, instOk, openLog, failures >>
    /\ UNCHANGED << codecVars, logRecs >>

NextPair ==
    \/ PairOpen
    \/ \E c \in PairCalls : PairSet(c[1], c[2].value, c[2].mime)
    \/ \E k \in PairKeys : PairGet(k)

SpecPair == InitPair /\ [][NextPair]_vars

\* ------------------------------------------------ open on a given log

\* KVStore::new on a file that holds records already, whoever wrote them:
\* the bytes write_to_stream or write_to_stream_compressed gives a record of
\* these fields.  The keys and MIME strings include bytes that are not
\* UTF-8; the memory stream holds no record.
LogRecKinds ==
    { [kv |-> KVEntry(Bytes(<< 97 >>), Fill(1, 65), Bytes(<< 116 >>)), enc |-> "raw"],
      [kv |-> KVEntry(Bytes(<< 255 >>), Fill(1, 65), Bytes(<< 116 >>)), enc |-> "raw"],
      [kv |-> KVEntry(Bytes(<< 97 >>), Fill(1, 65), Bytes(<< 195 >>)), enc |-> "raw"],
      [kv |-> KVEntry(Bytes(<< 98, 99 >>), Noise(CompressThreshold + 1),
                      Bytes(<< 116 >>)), enc |-> "compressed"],
      [kv |-> KVEntry(Bytes(<< 255 >>), Noise(CompressThreshold + 1),
                      Bytes(<< 116 >>)), enc |-> "compressed"] }
Logs == UNION { [1..n -> LogRecKinds] : n \in 0..MaxRecs }

\* The stream after the records recs were written to it one after the other.
RECURSIVE WriteRecs(_, _)
WriteRecs(s, recs) ==
    IF recs = << >> THEN s
    ELSE WriteRecs(IF Head(recs).enc = "compressed"
                   THEN WriteToStreamCompressed(s, Head(recs).kv)
                   ELSE WriteToStream(s, Head(recs).kv),
                   Tail(recs))

InitOpen ==
    /\ logRecs \in Logs
    /\ \E kind \in {"file", "memory"} :
          /\ kind = "memory" => logRecs = << >>
          /\ \E s \in { WriteRecs(NewStream(kind), logRecs),
                        SeekStart(WriteRecs(NewStream(kind), logRecs), 0) } :
                /\ stream = s
                /\ phase = "start"
                /\ openErr = "none"
                /\ entries = EmptyMap
                /\ lock = 0
                /\ pc = [w \in Workers |-> "idle"]
                /\ thread = [w \in Workers |-> 0]
                /\ req = [w \in Workers |-> NoReq]
                /\ step = [w \in Workers |-> 1]
                /\ loc = [w \in Workers |-> NoLocals]
                /\ resp = [w \in Workers |-> NoResp]
                /\ sets = 0
                /\ restarted = FALSE
                /\ lastOk = EmptyMap
                /\ instOk = EmptyMap
                /\ openLog = << >>
                /\ failures = 0
    /\ CodecOff
    /\ PairOff

NextOpen == OpenSeek \/ OpenRead \/ OpenIoError

SpecOpen == InitOpen /\ [][NextOpen]_vars

\* ENABLED <<OpenRead>>_vars, as a predicate of the state: the loop is
\* running and its next iteration changes the stream, the index or the phase.
OpenReadEnabled ==
    /\ phase = "loading"
    /\ LET r == ReadFromStream(stream)
       IN  \/ r.s # stream
           \/ OpenOutcome(r.tag) # "loading"
           \/ Insert(entries, r.entry.key, EntryFrom(r.entry)) # entries

\* Each await of KVStore::new returns in the end: the seek and every read
\* are steps of one task that nothing else can hold up.  This is weak
\* fairness of OpenSeek and of OpenRead, the latter written out with its
\* enabling condition.
SpecOpenLive ==
    /\ InitOpen
    /\ [][NextOpen]_vars
    /\ WF_vars(OpenSeek)
    /\ ([]<>~OpenReadEnabled \/ []<><<OpenRead>>_vars)

\* ------------------------------------------------------------------ claims

NoSetRunning == \A w \in Workers : pc[w] # "set"

\* C1. Replay idempotence: a Store freshly opened on a file that holds the
\* records of successful set calls only (none failed, none was cut off) has
\* as its index exactly the last Entry set for each key.
C1_ReplayIdempotence ==
    (/\ phase = "ready"
     /\ stream.kind = "file"
     /\ failures = 0
     /\ instOk = EmptyMap
     /\ NoSetRunning)
        => entries = lastOk

\* C2. Round trip under compression: an entry whose value is longer than
\* 1024 bytes, written by write_to_stream_compressed and read back by
\* read_from_stream, comes back with the same key, value and mime.
C2_CompressedRoundTrip ==
    (cPc = "read" /\ cEnc = "compressed" /\ BLen(cEntry.value) > CompressThreshold)
        => (cRead.tag = "Ok" /\ cRead.entry = cEntry)

\* C3. Round trip raw: an entry whose value is at most 1024 bytes, written
\* by write_to_stream and read back by read_from_stream, comes back with the
\* same key, value and mime, and the reader is left at the record's end.
C3_RawRoundTrip ==
    (cPc = "read" /\ cEnc = "raw" /\ BLen(cEntry.value) <= CompressThreshold)
        => (/\ cRead.tag = "Ok"
            /\ cRead.entry = cEntry
            /\ cRead.s.pos = BLen(cStream.data))

C3_Witness ==
    /\ cPc = "read"
    /\ cEnc = "raw"
    /\ BLen(cEntry.value) = CompressThreshold
    /\ cEntry.key = Bytes(<< 195, 169 >>)
    /\ cEntry.mime = Bytes(<< 116 >>)
    /\ cRead.tag = "Ok"
    /\ cRead.entry.value = Noise(CompressThreshold)

\* C4. Corruption detection: KVStore::new ends its replay with a Store only
\* when the end of the stream is met at a record boundary, that is when the
\* read that met it started at the end of the log; a log that ends inside a
\* record makes open fail.
C4_TruncatedLogFailsOpen ==
    [][(phase = "loading" /\ phase' = "ready")
          => stream.pos >= BLen(stream.data)]_vars

\* C5. Last write wins in a live Store: for a key set successfully since the
\* Store was constructed, the index holds, and KVStore::get returns, the
\* Entry of the last successful set of that key, whatever other sets, failed
\* sets and gets came in between; get_value answers it with 200 and that
\* Entry, or with 406 when the Accept header does not match its MIME string.
C5_LastWriteWins ==
    /\ phase = "ready" =>
          \A k \in DOMAIN instOk : k \in DOMAIN entries /\ entries[k] = instOk[k]
    /\ \A w \in Workers :
          (pc[w] = "done" /\ req[w].op = "get" /\ req[w].key \in DOMAIN instOk)
             => /\ resp[w].got.found
                /\ resp[w].got.entry = instOk[req[w].key]
                /\ resp[w].status \in {200, 406}
                /\ resp[w].status = 200 => resp[w].entry = instOk[req[w].key]

\* set(k, A), set(k, B), get(k): the log holds the raw record of 1024 bytes
\* and then the compressed record of 1025 bytes of key "a", and get answers
\* the Entry of 1025 bytes.
C5_Witness ==
    /\ ~restarted
    /\ failures = 0
    /\ sets = 2
    /\ BLen(stream.data) = 1034 + 1049
    /\ BAt(stream.data, 1) = FlagsNone
    /\ \E w \in Workers :
          /\ pc[w] = "done"
          /\ req[w].op = "get"
          /\ req[w].key = Bytes(<< 97 >>)
          /\ resp[w].got.found
          /\ resp[w].got.entry = Entry(Noise(CompressThreshold + 1), Bytes(<< 116 >>))
          /\ resp[w].status = 200
          /\ resp[w].entry = resp[w].got.entry

\* C6. Single-writer exclusivity: at most one handler is inside get or set,
\* and it is the one holding the Mutex, so the stream steps of a set are
\* never interleaved with another handler's.
C6_SingleWriter ==
    /\ \A w1, w2 \in Workers :
          (pc[w1] \in {"get", "set"} /\ pc[w2] \in {"get", "set"}) => w1 = w2
    /\ \A w \in Workers : pc[w] \in {"get", "set"} => lock = w

\* A compressed set between its placeholder and its last seek, a second set
\* waiting for the Mutex.
C6_Witness ==
    /\ pc[1] = "set"
    /\ UseCompressed(req[1].value)
    /\ step[1] = 9
    /\ pc[2] = "lock"
    /\ req[2].op = "set"

\* C7. A failed set leaves the index unchanged: a step of set that is not
\* its successful end (a step inside the encoder, or the one that returns
\* the error to set_value) leaves every key's Entry as it was.
C7_FailedSetKeepsIndex ==
    [][\A w \in Workers :
          (/\ pc[w] = "set"
           /\ phase' = "ready"
           /\ ~(pc'[w] = "done" /\ resp'[w].status = 200))
             => /\ entries' = entries
                /\ (pc'[w] = "done" => resp'[w].status = 500)]_vars

\* The set of a key that has an Entry failed, and the key kept that Entry.
C7_Witness ==
    \E w \in Workers :
       /\ pc[w] = "done"
       /\ req[w].op = "set"
       /\ resp[w].status = 500
       /\ req[w].key \in DOMAIN entries
       /\ entries[req[w].key] # Entry(req[w].value, req[w].mime)
       /\ step[w] = 1

\* C8. Threshold boundary: once set has written the flags byte (the write
\* was not lost by the file), that byte is 0x00 when the value has at most
\* 1024 bytes and 0x80 when it has 1025 or more.
C8_ThresholdBoundary ==
    \A w \in Workers :
       (pc[w] = "set" /\ step[w] = 2 /\ stream.kind = "file" /\ ~stream.werr)
          => /\ stream.pos >= 1
             /\ stream.pos <= BLen(stream.data)
             /\ BAt(stream.data, stream.pos) =
                   (IF BLen(req[w].value) <= CompressThreshold
                    THEN FlagsNone ELSE FlagsZstdCompressed)

\* A key whose Entry of exactly 1024 bytes was written raw is being set to
\* one of 1025 bytes, written compressed.
C8_Witness ==
    \E w \in Workers :
       /\ pc[w] = "set"
       /\ step[w] = 2
       /\ BLen(req[w].value) = CompressThreshold + 1
       /\ stream.kind = "file"
       /\ stream.pos > 1
       /\ BAt(stream.data, stream.pos) = FlagsZstdCompressed
       /\ BAt(stream.data, 1) = FlagsNone
       /\ req[w].key \in DOMAIN entries
       /\ BLen(entries[req[w].key].value) = CompressThreshold

\* What a decompressor gets out of a frame as ZstdFlushed writes it: the
\* bytes of its block.
ZstdContent(f) == BSub(f, 10, BLen(f))

\* The record at the position of s0 read as the format describes it: the
\* reads of read_from_stream, but the body of a record of the compressed
\* encoding is parsed from the content of its frame, and a frame that does
\* not start with the magic number is a data error.
DecodeRecord(s0) ==
    LET f == ReadExact(s0, 1)
    IN  IF ~f.ok THEN ReadErr("UnexpectedEof", f.s)
        ELSE IF BitAnd128(BAt(f.bytes, 1)) # 0
        THEN LET n  == ReadExact(f.s, 4)
                 fr == ReadExactU32(n.s, U32FromLE(n.bytes))
                 d  == ReadFromStreamImpl(
                          [kind |-> "file", data |-> ZstdContent(fr.bytes),
                           pos |-> 0, werr |-> FALSE])
             IN  IF ~n.ok THEN ReadErr("UnexpectedEof", n.s)
                 ELSE IF ~fr.ok THEN ReadErr("UnexpectedEof", fr.s)
                 ELSE IF ~BStartsWith(fr.bytes, ZstdMagic)
                 THEN ReadErr("InvalidData", fr.s)
                 ELSE [d EXCEPT !.s = fr.s]
        ELSE ReadFromStreamImpl(f.s)

\* The keys of the records of the log d: of the records that can be read one
\* after the other from its start.
RECURSIVE LogKeysFrom(_)
LogKeysFrom(s) ==
    LET r == DecodeRecord(s)
    IN  IF r.tag = "Ok" THEN {r.entry.key} \cup LogKeysFrom(r.s) ELSE {}
LogKeys(d) ==
    LogKeysFrom([kind |-> "file", data |-> d, pos |-> 0, werr |-> FALSE])

\* A call of KVStore::new on the stream returned an io::Error that is not
\* the end of the stream.
OpenFaulted == phase' = "failed" /\ openErr' = "IO"

\* The index of a Store holds a key that was not set on this Store and that
\* no record of the log it was opened on has.
StrayKey ==
    /\ phase = "ready"
    /\ \E k \in DOMAIN entries :
          k \notin DOMAIN instOk /\ k \notin LogKeys(openLog)

C10_GetIsPure ==
    [][\A w \in Workers :
          (pc[w] = "get" /\ pc'[w] = "done")
             => (entries' = entries /\ stream' = stream)]_vars

\* KVStore::get has found the Entry of a key, the log not empty and the
\* stream at its end.
C10_Witness ==
    \E w \in Workers :
       /\ pc[w] = "done"
       /\ req[w].op = "get"
       /\ resp[w].got.found
       /\ resp[w].got.entry = entries[req[w].key]
       /\ stream.pos > 0
       /\ stream.pos = BLen(stream.data)

\* C11. Backing-storage independence: after the same calls, none of which
\* met an I/O error, the store on the file and the store on MemoryNoOpRWS hold
\* the same index, and the last call returned the same on both.
C11_BackingIndependence ==
    /\ entries = twin.entries
    /\ pairRes.file = pairRes.mem
    /\ pairRes.op \in {"new", "set"} => pairRes.file = "Ok"

\* Both stores found the Entry of 1025 bytes, which the file holds as a
\* compressed record and the memory stream does not hold at all.
C11_Witness ==
    /\ pairRes.op = "get"
    /\ pairRes.file.found
    /\ pairRes.mem.found
    /\ BLen(pairRes.mem.entry.value) = CompressThreshold + 1
    /\ BLen(stream.data) > CompressThreshold
    /\ twin.stream.data = << >>

\* read_u32_le on the bytes d after the flags byte of the record that
\* starts at offset p0: in_len, or UnexpectedEof (ok is FALSE).
FrameLenAt(d, p0) ==
    LET n == ReadExact([kind |-> "file", data |-> d, pos |-> p0 + 1,
                        werr |-> FALSE], 4)
    IN  [ok |-> n.ok,
         len |-> IF n.ok THEN U32FromLE(n.bytes) ELSE U32FromLE(U32LE(0)),
         s |-> n.s]

\* read_exact of in_stream, the in_len bytes after frame_len: the frame, or
\* UnexpectedEof (ok is FALSE) when frame_len or the frame is cut short.
FrameAt(d, p0) ==
    LET n == FrameLenAt(d, p0)
        f == ReadExactU32(n.s, n.len)
    IN  IF ~n.ok THEN [ok |-> FALSE, bytes |-> << >>]
        ELSE [ok |-> f.ok, bytes |-> f.bytes]

\* C12. Backpatch postcondition: when write_to_stream_compressed returns Ok
\* on a seekable stream that started at position P0, the byte at P0 is the
\* flags byte with bit 7 set, the four bytes after it hold E - S little
\* endian, where S = P0 + 5 and E is where the frame ends, the stream is at
\* E, and the bytes before P0 are as they were.
C12_Backpatch ==
    (cPc \in {"written", "read"} /\ cEnc = "compressed") =>
       LET p0 == cPre.pos
           d  == cStream.data
           e  == cStream.pos
       IN  /\ BLen(d) >= p0 + 5
           /\ BitAnd128(BAt(d, p0 + 1)) # 0
           /\ e > p0 + 5
           /\ e <= BLen(d)
           /\ BSub(d, p0 + 2, p0 + 5) = U32LE(e - (p0 + 5))
           /\ BSub(d, 1, p0) = BSub(cPre.data, 1, p0)

\* A compressed record written over the last four bytes of an earlier
\* record: its frame_len is patched in, the ten bytes before it stand.
C12_Witness ==
    /\ cPc = "written"
    /\ cEnc = "compressed"
    /\ cPre.pos = 10
    /\ BLen(cPre.data) = 14
    /\ BLen(cEntry.value) = CompressThreshold + 1
    /\ FrameLenAt(cStream.data, 10).ok
    /\ U32Int(FrameLenAt(cStream.data, 10).len) = cStream.pos - 15
    /\ U32Int(FrameLenAt(cStream.data, 10).len) > CompressThreshold
    /\ BAt(cStream.data, 10) = 9

\* A Zstandard frame is complete when its last block carries the
\* Last_Block bit (RFC 8878, 3.1.1.2) and ends where the frame ends; for the
\* frames of one block the encoder writes here: magic number, two bytes of
\* frame header, a block header of three bytes whose lowest bit is
\* Last_Block and whose upper 21 bits are the block's size.
ZstdFrameComplete(f) ==
    /\ BLen(f) >= 9
    /\ BSub(f, 1, 4) = ZstdMagic
    /\ BAt(f, 7) % 2 = 1
    /\ 9 + (BAt(f, 7) + 256 * BAt(f, 8) + 65536 * BAt(f, 9)) \div 8 = BLen(f)

\* C13. The compressor is finalized before the frame is measured: the
\* frame_len bytes after the placeholder of a compressed record are a
\* complete Zstandard frame, ended by its last block.
C13_FrameFinalized ==
    (cPc \in {"written", "read"} /\ cEnc = "compressed") =>
       /\ FrameAt(cStream.data, cPre.pos).ok
       /\ ZstdFrameComplete(FrameAt(cStream.data, cPre.pos).bytes)

\* C14. Append-only log across failures: on one Store opened on an empty
\* file, every set, whatever sets failed before it, begins to write at the
\* end of the log.
C14_SetStartsAtEnd ==
    \A w \in Workers :
       (/\ pc[w] = "set"
        /\ step[w] = 1
        /\ stream.kind = "file"
        /\ ~restarted)
          => stream.pos = BLen(stream.data)

\* The offset at which record n + 1 of the given log starts.
RecOffset(n) == BLen(WriteRecs(NewStream("file"), SubSeq(logRecs, 1, n)).data)

LogWellFormed ==
    \A i \in 1..Len(logRecs) :
       Utf8Valid(logRecs[i].kv.key) /\ Utf8Valid(logRecs[i].kv.mime)

\* C15. Records are self-delimiting during replay: on a well-formed log, the
\* iteration of KVStore::new that starts where record n + 1 starts decodes
\* it, applies it to the index and leaves the stream where the record ends:
\* 1 + 4 + frame_len bytes on for a compressed record,
\* 1 + 2 + key_len + 4 + value_len + 2 + mime_len bytes on for a raw one.
C15_SelfDelimiting ==
    [][\A n \in 0..(Len(logRecs) - 1) :
          (/\ phase = "loading"
           /\ stream.kind = "file"
           /\ LogWellFormed
           /\ stream.pos = RecOffset(n)
           /\ openErr' # "IO")
             => LET kv == logRecs[n + 1].kv
                    len == IF logRecs[n + 1].enc = "compressed"
                           THEN 1 + 4 + U32Int(FrameLenAt(stream.data,
                                                          stream.pos).len)
                           ELSE 1 + 2 + BLen(kv.key) + 4 + BLen(kv.value)
                                  + 2 + BLen(kv.mime)
                IN  /\ phase' = "loading"
                    /\ stream'.pos = stream.pos + len
                    /\ stream'.pos = RecOffset(n + 1)
                    /\ entries' = Insert(entries, kv.key, EntryFrom(kv))]_vars

\* C16. open aborts on bad data: the iteration of KVStore::new that starts
\* at a record whose key or MIME bytes are not UTF-8 returns InvalidData, an
\* I/O error that is not the end of the stream is returned as it is, and
\* either way no Store is constructed, whatever was decoded before.
C16_OpenAbortsOnBadData ==
    [][/\ \A n \in 0..(Len(logRecs) - 1) :
             (/\ phase = "loading"
              /\ stream.kind = "file"
              /\ stream.pos = RecOffset(n)
              /\ ~(Utf8Valid(logRecs[n + 1].kv.key)
                     /\ Utf8Valid(logRecs[n + 1].kv.mime))
              /\ openErr' # "IO")
                => (phase' = "failed" /\ openErr' = "InvalidData")
       /\ openErr' = "IO" => phase' = "failed"
       /\ phase' = "failed" => entries' = EmptyMap
       /\ phase = "failed" => phase' = "failed"]_vars

\* The raw encoding body of the record that starts at offset p0 of the bytes
\* d: what follows the flags byte, or the content of the frame.
RecordBodyAt(d, p0) ==
    IF BitAnd128(BAt(d, p0 + 1)) # 0 THEN ZstdContent(FrameAt(d, p0).bytes)
    ELSE BSub(d, p0 + 2, BLen(d))

\* C17. Length fields match the bytes written: in the record a set has just
\* written, raw or compressed, key_len, value_len and mime_len are the
\* numbers of bytes of the key, the value and the MIME string of the call,
\* and those bytes follow them.
C17_LengthFieldsMatch ==
    pairRes.op = "set" =>
       LET b == RecordBodyAt(stream.data, pairRes.at)
           k == BLen(pairRes.req.key)
           v == BLen(pairRes.req.value)
           m == BLen(pairRes.req.mime)
       IN  /\ BLen(b) = 2 + k + 4 + v + 2 + m
           /\ U16FromLE(BSub(b, 1, 2)) = k
           /\ BSub(b, 3, 2 + k) = pairRes.req.key
           /\ U32FromLE(BSub(b, 2 + k + 1, 2 + k + 4)) = U32FromLE(U32LE(v))
           /\ BSub(b, 2 + k + 5, 2 + k + 4 + v) = pairRes.req.value
           /\ U16FromLE(BSub(b, 2 + k + 4 + v + 1, 2 + k + 4 + v + 2)) = m
           /\ BSub(b, 2 + k + 4 + v + 3, 2 + k + 4 + v + 2 + m) = pairRes.req.mime

\* C18. open leaves the stream at the end of the log: a Store just opened on
\* a file that holds the records of successful sets only (none failed, none
\* was cut off) has its stream at the end of the file.
C18_OpenEndsAtEnd ==
    (/\ phase = "ready"
     /\ stream.kind = "file"
     /\ failures = 0
     /\ instOk = EmptyMap
     /\ \A w \in Workers : pc[w] = "idle")
        => stream.pos = BLen(stream.data)

\* C19. Index keys are never removed: while the Store lives, no step of get
\* or set, successful or failed, takes a key out of the index; the step in
\* which a set fails leaves every Entry of the index as it was; and a key for
\* which KVStore::get has just returned an Entry is in the index, with that
\* Entry.
C19_KeysNeverRemoved ==
    [][(phase = "ready" /\ phase' = "ready") =>
          /\ \A k \in DOMAIN entries : k \in DOMAIN entries'
          /\ \A w \in Workers :
                (/\ pc[w] = "set"
                 /\ pc'[w] = "done"
                 /\ resp'[w].status = 500)
                   => entries' = entries
          /\ \A w \in Workers :
                (/\ pc[w] = "get"
                 /\ pc'[w] = "done"
                 /\ resp'[w].got.found)
                   => /\ req'[w].key \in DOMAIN entries'
                      /\ entries'[req'[w].key] = resp'[w].got.entry]_vars

\* The compressed set of a key failed, and the key still has the Entry of
\* 1024 bytes an earlier set gave it.
C19_Witness ==
    \E w \in Workers :
       /\ pc[w] = "done"
       /\ req[w].op = "set"
       /\ resp[w].status = 500
       /\ UseCompressed(req[w].value)
       /\ req[w].key \in DOMAIN entries
       /\ entries[req[w].key] = Entry(Fill(CompressThreshold, 66), << >>)

\* C20. open terminates: every iteration of the loop of KVStore::new that
\* does not leave the loop consumes at least one byte of the stream, and the
\* loop is left in the end, with a Store or with an error.
C20_OpenTerminates ==
    /\ [][(phase = "loading" /\ phase' = "loading") => stream'.pos > stream.pos]_vars
    /\ <>(phase \in {"ready", "failed"})

\* open on MemoryNoOpRWS is over: the first read met the end of the stream.
C20_Witness ==
    /\ stream.kind = "memory"
    /\ phase = "ready"
    /\ entries = EmptyMap
    /\ logRecs = << >>
    /\ ~restarted
    /\ twin = NoTwin
    /\ sets = 0

====
